---- MODULE Spec2Model ----
(***************************************************************************)
(* Model of webhook_receiver.py: the Flask view function webhook(), which  *)
(* authenticates a POST by the HMAC-SHA1 of its raw body and then runs     *)
(* `git pull` and `systemctl restart gunicorn` with subprocess.run.        *)
(*                                                                         *)
(* Text is modelled as a sequence of one-character strings, so that        *)
(* str.split, string equality and hmac.compare_digest are computed and not *)
(* assumed.  The fixed part of a log message is one multi-character token. *)
(* One handler invocation is one index r of the per-invocation variables.  *)
(***************************************************************************)
EXTENDS Integers, Sequences, FiniteSets, TLC

VARIABLES
    SECRET,           \* module global SECRET (line 8), fixed for the process
    pc,               \* position of each handler invocation in webhook()
    header,           \* request.headers.get('X-Hub-Signature'): <<>> is None
    body,             \* request.data, the raw body
    sha_name,         \* local sha_name after the split (line 21)
    signature,        \* local signature after the split (line 21)
    mac,              \* mac.hexdigest() once computed (line 26): <<>> before
    git_pull,         \* CompletedProcess of git pull: <<>> before it returns
    restart_service,  \* CompletedProcess of systemctl restart: <<>> before
    log,              \* the log lines this invocation has emitted
    calls,            \* history: start/end events of the external actions
    status,           \* HTTP status of the response, 0 before the response
    respBody,         \* body of the response
    exc,              \* exception that left webhook() unhandled, "" if none
    visited           \* history: the positions this invocation went through

vars == <<SECRET, pc, header, body, sha_name, signature, mac, git_pull,
          restart_service, log, calls, status, respBody, exc, visited>>

(***************************************************************************)
(* Bounds of the model.                                                    *)
(***************************************************************************)
\* largest number of '='-separated fields of a header value the model sends
MaxParts == 3
\* number of handler invocations the server runs concurrently in ConcSpec
NumHandlers == 2

(***************************************************************************)
(* Text and the values requests are built from.                            *)
(***************************************************************************)
\* a character outside ASCII (header values are decoded as latin-1)
NonAscii == "0xE9"

IsAscii(s) == \A i \in 1..Len(s) : s[i] # NonAscii

\* the literal 'sha1' of line 22
Sha1Tag == <<"s", "h", "a", "1">>

Sha256Tag == <<"s", "h", "a", "2", "5", "6">>

\* values SECRET can be configured to (line 8 asks for the actual secret)
Secrets == { <<"k", "y">>, <<"k", "z">> }

\* raw request bodies
Bodies == { <<>>, <<"h", "i">> }

\* hmac.new(SECRET, msg=request.data, digestmod='sha1').hexdigest(): the keyed
\* hash as a function that maps distinct (secret, body) pairs to distinct
\* hex strings of one length
HexDigest(secret, msg) ==
    << (IF secret = <<"k", "y">> THEN "0" ELSE "f"),
       (IF msg = <<>> THEN "0" ELSE "f") >>

\* str.split(sep) of Python: the pieces of s between the occurrences of sep
RECURSIVE Split(_, _)
Split(s, sep) ==
    IF \E i \in 1..Len(s) : s[i] = sep
    THEN LET i == CHOOSE k \in 1..Len(s) :
                     s[k] = sep /\ \A j \in 1..(k - 1) : s[j] # sep
         IN  <<SubSeq(s, 1, i - 1)>> \o Split(SubSeq(s, i + 1, Len(s)), sep)
    ELSE <<s>>

\* the fields a sender may put around '=' signs in the header
Pieces ==
    { Sha1Tag, Sha256Tag, <<>>, <<NonAscii>> }
      \cup Secrets
      \cup { HexDigest(s, b) : s \in Secrets, b \in Bodies }

RECURSIVE Join(_)
Join(parts) ==
    IF Len(parts) = 1 THEN parts[1]
    ELSE parts[1] \o <<"=">> \o Join(Tail(parts))

\* the header values of the model: absent (<<>>), or present (<<text>>)
Headers ==
    { <<>> } \cup
    { <<Join(p)>> : p \in UNION { [1..n -> Pieces] : n \in 1..MaxParts } }

\* every request the model sends to a lone handler
Requests == Headers \X Bodies

\* the header a sender holding secret s computes for body b
Sign(s, b) == <<Sha1Tag \o <<"=">> \o HexDigest(s, b)>>

\* the requests of the concurrent model: validly signed ones, and an unsigned one
SignedRequests(s) == { <<Sign(s, b), b>> : b \in Bodies } \cup { << <<>>, <<>> >> }

\* what subprocess.run(..., capture_output=True, text=True) can return
Outcomes ==
    { [returncode |-> 0,   stdout |-> <<"o">>, stderr |-> <<>>],
      [returncode |-> 1,   stdout |-> <<>>,    stderr |-> <<"e">>],
      [returncode |-> 128, stdout |-> <<"o">>, stderr |-> <<"e">>] }

\* the handler invocations of the sequential and of the concurrent model
Solo == {1}

Pool == 1..NumHandlers

(***************************************************************************)
(* Helpers of the handler.                                                 *)
(***************************************************************************)
\* a mutant of compare_digest: compares the first character only
compare_digest_prefix(a, b) ==
    Len(a) > 0 /\ Len(b) > 0 /\ a[1] = b[1]

\* hmac.compare_digest(a, b) on two ASCII strings: equality of the whole strings
compare_digest(a, b) ==
    Len(a) = Len(b) /\ \A i \in 1..Len(a) : a[i] = b[i]

\* logging.info / logging.error: one more line in the log
Logged(r, lines) == log' = [log EXCEPT ![r] = @ \o lines]

\* abort(code), or an exception Flask turns into a 500: the response is sent
\* and the invocation is over
Finish(r, code, text, raised) ==
    /\ status' = [status EXCEPT ![r] = code]
    /\ respBody' = [respBody EXCEPT ![r] = text]
    /\ exc' = [exc EXCEPT ![r] = raised]
    /\ pc' = [pc EXCEPT ![r] = "Responded"]
    /\ visited' = [visited EXCEPT ![r] = Append(@, "Responded")]

\* the invocation goes on to the next position
Goto(r, where) ==
    /\ pc' = [pc EXCEPT ![r] = where]
    /\ visited' = [visited EXCEPT ![r] = Append(@, where)]
    /\ UNCHANGED <<status, respBody, exc>>

(***************************************************************************)
(* The initial states.                                                     *)
(***************************************************************************)
InitOf(H) ==
    /\ SECRET \in Secrets
    /\ pc = [r \in H |-> "idle"]
    /\ header = [r \in H |-> <<>>]
    /\ body = [r \in H |-> <<>>]
    /\ sha_name = [r \in H |-> <<>>]
    /\ signature = [r \in H |-> <<>>]
    /\ mac = [r \in H |-> <<>>]
    /\ git_pull = [r \in H |-> <<>>]
    /\ restart_service = [r \in H |-> <<>>]
    /\ log = [r \in H |-> <<>>]
    /\ calls = [r \in H |-> <<>>]
    /\ status = [r \in H |-> 0]
    /\ respBody = [r \in H |-> ""]
    /\ exc = [r \in H |-> ""]
    /\ visited = [r \in H |-> <<>>]

Init == InitOf(Solo)

ConcInit == InitOf(Pool)

(***************************************************************************)
(* The steps of webhook().                                                 *)
(***************************************************************************)
\* Flask routes a POST to webhook(); line 16
Receive(r, reqs) ==
    /\ pc[r] = "idle"
    /\ \E q \in reqs :
          /\ header' = [header EXCEPT ![r] = q[1]]
          /\ body' = [body EXCEPT ![r] = q[2]]
    /\ Logged(r, << <<"Received a request on /webhook">> >>)
    /\ Goto(r, "Received")
    /\ UNCHANGED <<SECRET, sha_name, signature, mac, git_pull,
                   restart_service, calls>>

\* lines 17-20
GetSignature(r) ==
    /\ pc[r] = "Received"
    /\ IF header[r] = <<>>
       THEN /\ Logged(r, << <<"Error: No signature found in the request headers.">> >>)
            /\ Finish(r, 403, "Forbidden", "")
       ELSE /\ Goto(r, "HeaderChecked")
            /\ UNCHANGED log
    /\ UNCHANGED <<SECRET, header, body, sha_name, signature, mac, git_pull,
                   restart_service, calls>>

\* lines 21-24: the unpacking of the split raises ValueError unless the
\* value holds exactly one '='
SplitHeader(r) ==
    /\ pc[r] = "HeaderChecked"
    /\ LET parts == Split(header[r][1], "=") IN
       IF Len(parts) # 2
       THEN /\ Finish(r, 500, "Internal Server Error", "ValueError")
            /\ UNCHANGED <<sha_name, signature, log>>
       ELSE /\ sha_name' = [sha_name EXCEPT ![r] = parts[1]]
            /\ signature' = [signature EXCEPT ![r] = parts[2]]
            /\ IF parts[1] # Sha1Tag
               THEN /\ Logged(r, << <<"Error: Unsupported SHA type ">> \o parts[1] \o <<".">> >>)
                    /\ Finish(r, 501, "Not Implemented", "")
               ELSE /\ Goto(r, "AlgorithmChecked")
                    /\ UNCHANGED log
    /\ UNCHANGED <<SECRET, header, body, mac, git_pull, restart_service, calls>>

\* a mutant of VerifySignature: the result of the comparison is ignored
VerifySignature_NoCheck(r) ==
    /\ pc[r] = "AlgorithmChecked"
    /\ mac' = [mac EXCEPT ![r] = <<HexDigest(SECRET, body[r])>>]
    /\ Goto(r, "SignatureVerified")
    /\ UNCHANGED <<SECRET, header, body, sha_name, signature, git_pull,
                   restart_service, calls, log>>

\* lines 26-29: compare_digest raises TypeError on a str with a non-ASCII
\* character
VerifySignature(r) ==
    /\ pc[r] = "AlgorithmChecked"
    /\ mac' = [mac EXCEPT ![r] = <<HexDigest(SECRET, body[r])>>]
    /\ IF ~IsAscii(signature[r])
       THEN /\ Finish(r, 500, "Internal Server Error", "TypeError")
            /\ UNCHANGED log
       ELSE IF ~compare_digest(HexDigest(SECRET, body[r]), signature[r])
       THEN /\ Logged(r, << <<"Error: Signature mismatch.">> >>)
            /\ Finish(r, 403, "Forbidden", "")
       ELSE /\ Goto(r, "SignatureVerified")
            /\ UNCHANGED log
    /\ UNCHANGED <<SECRET, header, body, sha_name, signature, git_pull,
                   restart_service, calls>>

\* lines 32-33: subprocess.run starts git pull and blocks
StartUpdate(r) ==
    /\ pc[r] = "SignatureVerified"
    /\ Logged(r, << <<"Attempting to pull the latest code...">> >>)
    /\ calls' = [calls EXCEPT ![r] = Append(@, "update_start")]
    /\ Goto(r, "UpdateRunning")
    /\ UNCHANGED <<SECRET, header, body, sha_name, signature, mac, git_pull,
                   restart_service>>

\* a mutant of FinishUpdate: the return code of git pull is not looked at
FinishUpdate_NoCheck(r) ==
    /\ pc[r] = "UpdateRunning"
    /\ \E res \in Outcomes :
          /\ git_pull' = [git_pull EXCEPT ![r] = <<res>>]
          /\ calls' = [calls EXCEPT ![r] = Append(@, "update_end")]
          /\ Logged(r, << <<"Git Pull Output:\n">> \o res.stdout >>)
          /\ Goto(r, "UpdateExecuted")
    /\ UNCHANGED <<SECRET, header, body, sha_name, signature, mac,
                   restart_service>>

\* a mutant of FinishUpdate: a failed git pull is tried again
FinishUpdate_Retry(r) ==
    /\ pc[r] = "UpdateRunning"
    /\ \E res \in Outcomes :
          /\ git_pull' = [git_pull EXCEPT ![r] = <<res>>]
          /\ calls' = [calls EXCEPT ![r] = Append(@, "update_end")]
          /\ IF res.returncode # 0
             THEN /\ Logged(r, << <<"Git Pull Output:\n">> \o res.stdout >>)
                  /\ Goto(r, "SignatureVerified")
             ELSE /\ Logged(r, << <<"Git Pull Output:\n">> \o res.stdout >>)
                  /\ Goto(r, "UpdateExecuted")
    /\ UNCHANGED <<SECRET, header, body, sha_name, signature, mac,
                   restart_service>>

\* lines 33-40: git pull returns; its output is logged and its return code
\* decides
FinishUpdate(r) ==
    /\ pc[r] = "UpdateRunning"
    /\ \E res \in Outcomes :
          /\ git_pull' = [git_pull EXCEPT ![r] = <<res>>]
          /\ calls' = [calls EXCEPT ![r] = Append(@, "update_end")]
          /\ IF res.returncode # 0
             THEN /\ Logged(r, << <<"Git Pull Output:\n">> \o res.stdout,
                                  <<"Error during git pull: ">> \o res.stderr >>)
                  /\ Finish(r, 500, "Internal Server Error", "")
             ELSE /\ Logged(r, << <<"Git Pull Output:\n">> \o res.stdout >>)
                  /\ Goto(r, "UpdateExecuted")
    /\ UNCHANGED <<SECRET, header, body, sha_name, signature, mac,
                   restart_service>>

\* lines 43-44: subprocess.run starts systemctl restart and blocks
StartRestart(r) ==
    /\ pc[r] = "UpdateExecuted"
    /\ Logged(r, << <<"Attempting to restart the Gunicorn service...">> >>)
    /\ calls' = [calls EXCEPT ![r] = Append(@, "restart_start")]
    /\ Goto(r, "RestartRunning")
    /\ UNCHANGED <<SECRET, header, body, sha_name, signature, mac, git_pull,
                   restart_service>>

\* a mutant of FinishRestart: the return code of the restart is not looked at
FinishRestart_NoCheck(r) ==
    /\ pc[r] = "RestartRunning"
    /\ \E res \in Outcomes :
          /\ restart_service' = [restart_service EXCEPT ![r] = <<res>>]
          /\ calls' = [calls EXCEPT ![r] = Append(@, "restart_end")]
          /\ Logged(r, << <<"Service Restart Output:\n">> \o res.stdout >>)
          /\ Goto(r, "ServiceRestarted")
    /\ UNCHANGED <<SECRET, header, body, sha_name, signature, mac, git_pull>>

\* lines 44-51: the restart returns; its output is logged and its return
\* code decides
FinishRestart(r) ==
    /\ pc[r] = "RestartRunning"
    /\ \E res \in Outcomes :
          /\ restart_service' = [restart_service EXCEPT ![r] = <<res>>]
          /\ calls' = [calls EXCEPT ![r] = Append(@, "restart_end")]
          /\ IF res.returncode # 0
             THEN /\ Logged(r, << <<"Service Restart Output:\n">> \o res.stdout,
                                  <<"Error restarting Gunicorn service: ">> \o res.stderr >>)
                  /\ Finish(r, 500, "Internal Server Error", "")
             ELSE /\ Logged(r, << <<"Service Restart Output:\n">> \o res.stdout >>)
                  /\ Goto(r, "ServiceRestarted")
    /\ UNCHANGED <<SECRET, header, body, sha_name, signature, mac, git_pull>>

\* lines 53-54
Respond(r) ==
    /\ pc[r] = "ServiceRestarted"
    /\ Logged(r, << <<"Webhook executed successfully.">> >>)
    /\ Finish(r, 200, "OK", "")
    /\ UNCHANGED <<SECRET, header, body, sha_name, signature, mac, git_pull,
                   restart_service, calls>>

\* the steps of an invocation after its request has arrived
Handle(r) ==
    \/ GetSignature(r)
    \/ SplitHeader(r)
    \/ VerifySignature(r)
    \/ StartUpdate(r)
    \/ FinishUpdate(r)
    \/ StartRestart(r)
    \/ FinishRestart(r)
    \/ Respond(r)

\* one invocation, any request
Next ==
    \E r \in Solo : Receive(r, Requests) \/ Handle(r)

Spec == Init /\ [][Next]_vars

\* the handler runs to its response once invoked, and subprocess.run returns
\* when the command it waits for terminates
FairSpec == Init /\ [][Next]_vars /\ \A r \in Solo : WF_vars(Handle(r))

\* app.run (lines 56-57) serves each connection in a thread of its own: the
\* invocations interleave, and nothing in webhook() orders them
ConcNext ==
    \E r \in Pool : Receive(r, SignedRequests(SECRET)) \/ Handle(r)

ConcSpec == ConcInit /\ [][ConcNext]_vars

(***************************************************************************)
(* Vocabulary of the properties.                                           *)
(***************************************************************************)
Count(seq, e) == Cardinality({ i \in 1..Len(seq) : seq[i] = e })

\* text t occurs in line
Contains(line, t) ==
    \E i \in 1..(Len(line) - Len(t) + 1) : SubSeq(line, i, i + Len(t) - 1) = t

Responded(r) == pc[r] = "Responded"

\* the invocation got past the comparison of line 27
Accepted(r) == Count(visited[r], "SignatureVerified") > 0

UpdateCount(r) == Count(calls[r], "update_start")

RestartCount(r) == Count(calls[r], "restart_start")

Failed(proc) == proc # <<>> /\ proc[1].returncode # 0

Succeeded(proc) == proc # <<>> /\ proc[1].returncode = 0

\* the request carries the header a holder of SECRET computes for its body
ValidlySigned(r) ==
    header[r] = <<Sha1Tag \o <<"=">> \o HexDigest(SECRET, body[r])>>

BothActionsInOrder == <<"update_start", "update_end", "restart_start", "restart_end">>

\* <algorithm>=<hex-digest>: the tag is the text before the first '=', the
\* digest the text after it
TagOf(h) == Split(h, "=")[1]

DigestOf(h) ==
    IF Len(TagOf(h)) = Len(h) THEN <<>> ELSE SubSeq(h, Len(TagOf(h)) + 2, Len(h))

Rank(p) ==
    CASE p = "idle" -> 0
      [] p = "Received" -> 1
      [] p = "HeaderChecked" -> 2
      [] p = "AlgorithmChecked" -> 3
      [] p = "SignatureVerified" -> 4
      [] p = "UpdateRunning" -> 5
      [] p = "UpdateExecuted" -> 6
      [] p = "RestartRunning" -> 7
      [] p = "ServiceRestarted" -> 8
      [] p = "Responded" -> 9

(***************************************************************************)
(* C1. Authentication gates every action: git pull and the restart are     *)
(* invoked only for a request whose header is present, tagged sha1 and     *)
(* carries the hex HMAC of the raw body under SECRET; a request rejected   *)
(* with 403 or 501 has invoked neither.                                    *)
(***************************************************************************)
AuthGatesActions ==
    \A r \in DOMAIN pc :
       /\ calls[r] # <<>> =>
             /\ header[r] # <<>>
             /\ TagOf(header[r][1]) = Sha1Tag
             /\ DigestOf(header[r][1]) = HexDigest(SECRET, body[r])
       /\ status[r] \in {403, 501} => UpdateCount(r) = 0 /\ RestartCount(r) = 0

AuthGatesActionsWitness ==
    \E r \in DOMAIN pc : RestartCount(r) = 1 /\ ValidlySigned(r)

(***************************************************************************)
(* C2. Status mapping, as the claim states it for every request: missing   *)
(* header 403, tag other than sha1 501, sha1 with a wrong digest 403,      *)
(* valid signature and a failed action 500, valid signature and both       *)
(* actions 0 gives 200 with body OK.                                       *)
(***************************************************************************)
ClaimedStatus(r) ==
    IF header[r] = <<>> THEN 403
    ELSE IF TagOf(header[r][1]) # Sha1Tag THEN 501
    ELSE IF DigestOf(header[r][1]) # HexDigest(SECRET, body[r]) THEN 403
    ELSE IF Failed(git_pull[r]) \/ Failed(restart_service[r]) THEN 500
    ELSE 200

StatusMapping ==
    \A r \in DOMAIN pc :
       Responded(r) =>
          /\ status[r] = ClaimedStatus(r)
          /\ status[r] = 200 => respBody[r] = "OK"

(***************************************************************************)
(* C3. No restart after a failed update: once git pull has returned a      *)
(* non-zero code the restart is never invoked and the response is 500; the *)
(* restart is invoked only after git pull of the same request returned 0.  *)
(***************************************************************************)
NoRestartAfterFailedUpdate ==
    \A r \in DOMAIN pc :
       /\ Failed(git_pull[r]) =>
             RestartCount(r) = 0 /\ Responded(r) /\ status[r] = 500
       /\ RestartCount(r) > 0 =>
             /\ Succeeded(git_pull[r])
             /\ SubSeq(calls[r], 1, 3) = <<"update_start", "update_end", "restart_start">>

NoRestartAfterFailedUpdateWitness ==
    \E r \in DOMAIN pc : ValidlySigned(r) /\ Failed(git_pull[r]) /\ Responded(r)

(***************************************************************************)
(* C4. Success path: a validly signed request whose two actions return 0   *)
(* is answered 200 'OK' after exactly one update followed by exactly one   *)
(* restart; and a 200 is sent only after both ran and returned 0.          *)
(***************************************************************************)
SuccessPath ==
    \A r \in DOMAIN pc :
       /\ ( /\ Responded(r)
            /\ ValidlySigned(r)
            /\ ~Failed(git_pull[r])
            /\ ~Failed(restart_service[r]) ) =>
             /\ calls[r] = BothActionsInOrder
             /\ status[r] = 200
             /\ respBody[r] = "OK"
       /\ status[r] = 200 =>
             /\ calls[r] = BothActionsInOrder
             /\ Succeeded(git_pull[r])
             /\ Succeeded(restart_service[r])
       /\ (ValidlySigned(r) /\ calls[r] # BothActionsInOrder) => status[r] \in {0, 500}

SuccessPathWitness ==
    \E r \in DOMAIN pc : status[r] = 200 /\ respBody[r] = "OK"

(***************************************************************************)
(* C5. Verification is exact: once the comparison of a header sha1=<d> has *)
(* run, it has accepted if and only if d is the hex keyed hash of the raw  *)
(* body under SECRET; a digest that differs in some position, or that was  *)
(* computed over another body, is not accepted and no action runs.         *)
(***************************************************************************)
VerificationExact ==
    \A r \in DOMAIN pc :
       mac[r] # <<>> =>
          /\ header[r] = <<Sha1Tag \o <<"=">> \o signature[r]>>
          /\ Accepted(r) <=> signature[r] = HexDigest(SECRET, body[r])
          /\ (\E i \in 1..Len(mac[r][1]) :
                 i > Len(signature[r]) \/ signature[r][i] # mac[r][1][i])
                => ~Accepted(r) /\ calls[r] = <<>> /\ status[r] \in {403, 500}
          /\ \A b \in Bodies \ {body[r]} :
                signature[r] = HexDigest(SECRET, b) => ~Accepted(r) /\ status[r] = 403

VerificationExactWitness ==
    \E r \in DOMAIN pc :
       /\ mac[r] # <<>>
       /\ Len(signature[r]) = Len(mac[r][1])
       /\ Cardinality({ i \in 1..Len(signature[r]) : signature[r][i] # mac[r][1][i] }) = 1
       /\ status[r] = 403

(***************************************************************************)
(* C6. Every error is handled at the handler boundary: whatever the header *)
(* value, no exception leaves the handler, a malformed header is answered  *)
(* 403 or 501 with no action invoked, and a 500 is sent only after an      *)
(* action was invoked and returned non-zero.                               *)
(***************************************************************************)
ErrorsHandledAtBoundary ==
    \A r \in DOMAIN pc :
       Responded(r) =>
          /\ exc[r] = ""
          /\ (header[r] # <<>> /\ Len(Split(header[r][1], "=")) # 2) =>
                status[r] \in {403, 501} /\ calls[r] = <<>>
          /\ status[r] = 500 => Failed(git_pull[r]) \/ Failed(restart_service[r])

(***************************************************************************)
(* C7. No secret material in the log: no line the handler has logged       *)
(* contains SECRET, or the digest the handler computed for the request.    *)
(***************************************************************************)
NoSecretInLog ==
    \A r \in DOMAIN pc :
       \A i \in 1..Len(log[r]) :
          /\ ~Contains(log[r][i], SECRET)
          /\ mac[r] # <<>> => ~Contains(log[r][i], mac[r][1])

(***************************************************************************)
(* C9, as stated. With requests handled concurrently there is no state in  *)
(* which a git pull and a restart are executing at the same time.          *)
(***************************************************************************)
NoUpdateRestartOverlap ==
    ~ \E r1 \in DOMAIN pc, r2 \in DOMAIN pc :
         pc[r1] = "UpdateRunning" /\ pc[r2] = "RestartRunning"

(***************************************************************************)
(* C9, amended. Within one invocation the two actions never overlap: while *)
(* its restart executes, its own git pull has completed with code 0 and    *)
(* nothing else of it is running; while its git pull executes, it has      *)
(* started nothing else.  Actions of different invocations may overlap.    *)
(***************************************************************************)
RestartAfterOwnUpdate ==
    \A r \in DOMAIN pc :
       /\ pc[r] = "RestartRunning" =>
             /\ Succeeded(git_pull[r])
             /\ calls[r] = <<"update_start", "update_end", "restart_start">>
       /\ pc[r] = "UpdateRunning" => calls[r] = <<"update_start">>

RestartAfterOwnUpdateWitness ==
    \E r1 \in DOMAIN pc, r2 \in DOMAIN pc :
       /\ pc[r1] = "UpdateRunning"
       /\ pc[r2] = "RestartRunning"
       /\ Succeeded(git_pull[r2])

(***************************************************************************)
(* C10. The per-request state machine is strictly linear: an invocation    *)
(* only moves forward through the positions, visits none twice, invokes    *)
(* each action at most once, responds at most once and never from a        *)
(* position that checks nothing, and once it has received a request it     *)
(* eventually responds (given that an invoked action terminates).          *)
(***************************************************************************)
Linear(r) ==
    /\ \A i \in 1..Len(visited[r]), j \in 1..Len(visited[r]) :
          i < j => Rank(visited[r][i]) < Rank(visited[r][j])
    /\ Len(visited[r]) > 0 => visited[r][Len(visited[r])] = pc[r]
    /\ UpdateCount(r) <= 1
    /\ RestartCount(r) <= 1
    /\ Count(visited[r], "Responded") <= 1
    /\ \A i \in 2..Len(visited[r]) :
          visited[r][i] = "Responded" =>
             visited[r][i - 1] \notin {"SignatureVerified", "UpdateExecuted"}

LinearStateMachine ==
    /\ [](\A r \in Solo : Linear(r))
    /\ \A r \in Solo : (pc[r] = "Received") ~> (pc[r] = "Responded")

LinearStateMachineWitness ==
    \E r \in DOMAIN pc :
       /\ Responded(r)
       /\ Len(visited[r]) = 9
       /\ UpdateCount(r) = 1
       /\ RestartCount(r) = 1

====
